---- MODULE Spec2Model ----
(***************************************************************************)
(* Model of the EKS configuration loader of domino_cdk                     *)
(* (src/cdk/domino_cdk/config/eks.py): the nodegroup loaders, the          *)
(* post-construction validation of the EKS dataclass and the two schema    *)
(* loaders from_0_0_0 and from_0_0_1.                                      *)
(*                                                                         *)
(* A raw mapping (a Python dict) is a function whose domain is its key     *)
(* set; dict.pop removes the key from the domain.  A dict whose iteration  *)
(* order matters (the nodegroup mappings) is a sequence of                 *)
(* [name, ng] entries in insertion order.  Python's None is the value      *)
(* None below; truthiness of a str, a dict and a list is modelled by       *)
(* TruthyStr, TruthyMap and TruthySeq.                                     *)
(***************************************************************************)
EXTENDS Integers, Sequences, FiniteSets, TLC

VARIABLES
    input,    \* the mapping handed to the loader, as the caller wrote it
    c,        \* the same dict object while the loader pops keys from it
    loader,   \* which loader ran: "none", "from_0_0_0", "from_0_0_1"
    pc,       \* "start" before the call, "done" after it returned or raised
    self,     \* the EKS instance whose __post_init__ ran (NoObj if none was built)
    errors,   \* the errors list of that __post_init__
    exc,      \* the exception the call raised (NoExc if it returned)
    ret       \* the EKS object the call returned (NoObj if it raised)

vars == <<input, c, loader, pc, self, errors, exc, ret>>

----------------------------------------------------------------------------
(* Python values *)

None == "None"

EmptyMap == [k \in {} |-> ""]

NoObj == [built |-> FALSE]

TruthyStr(s) == s # None /\ s # ""

TruthyMap(m) == DOMAIN m # {}

TruthySeq(s) == Len(s) > 0

\* d[k] = v  (dict item assignment)
SetItem(d, k, v) == [x \in DOMAIN d \cup {k} |-> IF x = k THEN v ELSE d[x]]

\* the dict d after the keys ks were popped from it
Without(d, ks) == [x \in DOMAIN d \ ks |-> d[x]]

\* {**a, **b}: the keys of both, b's value where both have the key
Merge(a, b) == [x \in DOMAIN a \cup DOMAIN b |-> IF x \in DOMAIN b THEN b[x] ELSE a[x]]

----------------------------------------------------------------------------
(* Exceptions *)

NoExc == [kind |-> "none", key |-> "", what |-> "", where |-> "", keys |-> {}, errors |-> <<>>]

KeyError(k) == [kind |-> "KeyError", key |-> k, what |-> "", where |-> "", keys |-> {}, errors |-> <<>>]

ConfigError(what, where, ks) ==
    [kind |-> "ConfigError", key |-> "", what |-> what, where |-> where, keys |-> ks, errors |-> <<>>]

ValueError(errs) ==
    [kind |-> "ValueError", key |-> "", what |-> "", where |-> "", keys |-> {}, errors |-> errs]

Raised(e) == e.kind # "none"

----------------------------------------------------------------------------
(* A run of dict.pop calls, in source order.  pops is a sequence of        *)
(* [k, req, dflt]: pop(k) when req, pop(k, dflt) otherwise.  The first     *)
(* required key that is absent raises KeyError; the keys popped before it  *)
(* are already gone from the dict.                                         *)

P(k) == [k |-> k, req |-> TRUE, dflt |-> None]

PD(k, dflt) == [k |-> k, req |-> FALSE, dflt |-> dflt]

FirstMissing(d, pops) ==
    LET miss == {i \in 1..Len(pops) : pops[i].req /\ pops[i].k \notin DOMAIN d}
    IN IF miss = {} THEN 0 ELSE CHOOSE i \in miss : \A j \in miss : i <= j

PopKeys(d, pops) ==
    LET m    == FirstMissing(d, pops)
        upto == IF m = 0 THEN Len(pops) ELSE m - 1
        gone == {pops[i].k : i \in 1..upto}
    IN [exc  |-> IF m = 0 THEN NoExc ELSE KeyError(pops[m].k),
        vals |-> [k \in gone |->
                    IF k \in DOMAIN d THEN d[k]
                    ELSE pops[CHOOSE i \in 1..upto : pops[i].k = k].dflt],
        rest |-> Without(d, gone)]

----------------------------------------------------------------------------
(* domino_cdk.config.util: the leftover-key checks and the ingress rule    *)
(* loader.                                                                 *)

\* check_leavins(thing, section, obj): fails when obj still has keys
check_leavins(what, where, rest) ==
    IF DOMAIN rest # {} THEN ConfigError(what, where, DOMAIN rest) ELSE NoExc

\* from_loader(name, cfg, c): fails when c still has keys, else returns cfg
from_loader(name, cfg, rest) ==
    IF DOMAIN rest # {}
    THEN [exc |-> ConfigError("attribute", name, DOMAIN rest), ret |-> NoObj]
    ELSE [exc |-> NoExc, ret |-> cfg]

\* IngressRule.load_rules(name, rules): one IngressRule per raw rule
load_rules(name, rules) ==
    [i \in 1..Len(rules) |->
        [name      |-> rules[i].name,
         from_port |-> rules[i].from_port,
         to_port   |-> rules[i].to_port,
         protocol  |-> rules[i].protocol,
         ip_cidrs  |-> rules[i].ip_cidrs]]

----------------------------------------------------------------------------
(* Nodegroup loaders *)

BasePops ==
    << P("ssm_agent"), P("disk_size"), PD("key_name", None), P("min_size"),
       P("max_size"), PD("ami_id", None), PD("user_data", None),
       P("instance_types"), P("labels"), P("tags") >>

\* variant: the optional keys default to the empty string
base_load_empty_defaults(ng) ==
    PopKeys(ng, [i \in 1..Len(BasePops) |->
                    IF BasePops[i].req THEN BasePops[i] ELSE PD(BasePops[i].k, "")])

base_load(ng) == PopKeys(ng, BasePops)

ManagedPops == << P("spot"), P("desired_size") >>

UnmanagedPops ==
    << P("gpu"), P("imdsv2_required"), PD("taints", EmptyMap), P("ingress_ports") >>

\* variant: the managed loader without its leftover-key check
ManagedNodegroup_load_unchecked(ng) ==
    LET b == base_load(ng)
        s == PopKeys(b.rest, ManagedPops)
    IN IF Raised(b.exc) THEN [exc |-> b.exc, obj |-> NoObj]
       ELSE IF Raised(s.exc) THEN [exc |-> s.exc, obj |-> NoObj]
       ELSE [exc |-> NoExc, obj |-> Merge(b.vals, s.vals)]

\* EKS.ManagedNodegroup.load(ng): [exc, obj]
ManagedNodegroup_load(ng) ==
    LET b == base_load(ng)
        s == PopKeys(b.rest, ManagedPops)
        l == check_leavins("managed nodegroup attribute", "config.eks.unmanaged_nodegroups", s.rest)
    IN IF Raised(b.exc) THEN [exc |-> b.exc, obj |-> NoObj]
       ELSE IF Raised(s.exc) THEN [exc |-> s.exc, obj |-> NoObj]
       ELSE IF Raised(l) THEN [exc |-> l, obj |-> NoObj]
       ELSE [exc |-> NoExc, obj |-> Merge(b.vals, s.vals)]

\* EKS.UnmanagedNodegroup.load(ng): [exc, obj]
UnmanagedNodegroup_load(ng) ==
    LET b == base_load(ng)
        s == PopKeys(b.rest, UnmanagedPops)
        l == check_leavins("unmanaged nodegroup attribute", "config.eks.unmanaged_nodegroups", s.rest)
    IN IF Raised(b.exc) THEN [exc |-> b.exc, obj |-> NoObj]
       ELSE IF Raised(s.exc) THEN [exc |-> s.exc, obj |-> NoObj]
       ELSE IF Raised(l) THEN [exc |-> l, obj |-> NoObj]
       ELSE [exc |-> NoExc,
             obj |-> Merge(b.vals,
                           [gpu             |-> s.vals.gpu,
                            imdsv2_required |-> s.vals.imdsv2_required,
                            taints          |-> s.vals.taints,
                            ingress_ports   |-> load_rules("config.eks.unmanaged_nodegroups",
                                                           s.vals.ingress_ports)])]

\* variant: machine_image is popped but not merged into the nodegroup
remap_mi_dropped(ng, unmanaged) ==
    LET ng1 == IF unmanaged
               THEN SetItem(SetItem(ng, "imdsv2_required", FALSE), "ingress_ports", <<>>)
               ELSE ng
    IN Without(ng1, {"machine_image"})

\* remap_mi of from_0_0_0: the machine_image sub-mapping merged under the
\* nodegroup's own keys
remap_mi(ng, unmanaged) ==
    LET ng1 == IF unmanaged
               THEN SetItem(SetItem(ng, "imdsv2_required", FALSE), "ingress_ports", <<>>)
               ELSE ng
        mi  == IF "machine_image" \in DOMAIN ng1 THEN ng1["machine_image"] ELSE EmptyMap
    IN Merge(mi, Without(ng1, {"machine_image"}))

\* {name: load(ng) for name, ng in d.items()}: the entries are loaded in
\* the dict's order and the first exception ends the comprehension
RECURSIVE LoadEach(_, _, _)
LoadEach(entries, managed, remap) ==
    IF entries = <<>> THEN [exc |-> NoExc, objs |-> <<>>]
    ELSE LET raw == IF remap THEN remap_mi(Head(entries).ng, ~managed) ELSE Head(entries).ng
             hd  == IF managed THEN ManagedNodegroup_load(raw) ELSE UnmanagedNodegroup_load(raw)
             tl  == LoadEach(Tail(entries), managed, remap)
         IN IF Raised(hd.exc) THEN [exc |-> hd.exc, objs |-> <<>>]
            ELSE IF Raised(tl.exc) THEN [exc |-> tl.exc, objs |-> <<>>]
            ELSE [exc |-> NoExc,
                  objs |-> <<[name |-> Head(entries).name, ng |-> hd.obj]>> \o tl.objs]

----------------------------------------------------------------------------
(* EKS.__post_init__ *)

UserDataError(ng_name) == [rule |-> "user_data", subject |-> ng_name]

IncompatibleError(ng_name) == [rule |-> "incompatible_options", subject |-> ng_name]

MinSizeError(error_name) == [rule |-> "min_size", subject |-> error_name]

AccessError == [rule |-> "control_plane_access", subject |-> <<"EKS", "">>]

\* f"Managed nodegroup [{name}]"
ManagedName(name) == <<"Managed nodegroup", name>>

\* f"Unmanaged nodegroup [{name}]"
UnmanagedName(name) == <<"Unmanaged nodegroup", name>>

\* variant: only a user_data of None counts as missing
check_ami_exceptions_none_only(ng_name, ami_id, user_data, incompatible_options) ==
    (IF TruthyStr(ami_id) /\ user_data = None THEN <<UserDataError(ng_name)>> ELSE <<>>)
    \o (IF TruthyStr(ami_id) /\ incompatible_options THEN <<IncompatibleError(ng_name)>> ELSE <<>>)

\* the errors one call of check_ami_exceptions appends
check_ami_exceptions(ng_name, ami_id, user_data, incompatible_options) ==
    (IF TruthyStr(ami_id) /\ ~TruthyStr(user_data) THEN <<UserDataError(ng_name)>> ELSE <<>>)
    \o (IF TruthyStr(ami_id) /\ incompatible_options THEN <<IncompatibleError(ng_name)>> ELSE <<>>)

\* variant: the managed loop without the min_size rule
ManagedChecks_no_min_size(name, ng) ==
    check_ami_exceptions(ManagedName(name), ng.ami_id, ng.user_data,
                         ng.ssm_agent \/ TruthyMap(ng.labels))

\* the errors one iteration of the managed nodegroup loop appends
ManagedChecks(name, ng) ==
    check_ami_exceptions(ManagedName(name), ng.ami_id, ng.user_data,
                         ng.ssm_agent \/ TruthyMap(ng.labels))
    \o (IF ng.min_size = 0 THEN <<MinSizeError(ManagedName(name))>> ELSE <<>>)

\* variant: the unmanaged loop also rejects min_size = 0
UnmanagedChecks_with_min_size(name, ng) ==
    check_ami_exceptions(UnmanagedName(name), ng.ami_id, ng.user_data,
                         ng.ssm_agent \/ TruthyMap(ng.labels) \/ TruthyMap(ng.taints))
    \o (IF ng.min_size = 0 THEN <<MinSizeError(UnmanagedName(name))>> ELSE <<>>)

\* variant: the unmanaged loop passes the managed incompatible options
UnmanagedChecks_no_taints(name, ng) ==
    check_ami_exceptions(UnmanagedName(name), ng.ami_id, ng.user_data,
                         ng.ssm_agent \/ TruthyMap(ng.labels))

\* the errors one iteration of the unmanaged nodegroup loop appends
UnmanagedChecks(name, ng) ==
    check_ami_exceptions(UnmanagedName(name), ng.ami_id, ng.user_data,
                         ng.ssm_agent \/ TruthyMap(ng.labels) \/ TruthyMap(ng.taints))

RECURSIVE ManagedLoop(_)
ManagedLoop(ngs) ==
    IF ngs = <<>> THEN <<>>
    ELSE ManagedChecks(Head(ngs).name, Head(ngs).ng) \o ManagedLoop(Tail(ngs))

RECURSIVE UnmanagedLoop(_)
UnmanagedLoop(ngs) ==
    IF ngs = <<>> THEN <<>>
    ELSE UnmanagedChecks(Head(ngs).name, Head(ngs).ng) \o UnmanagedLoop(Tail(ngs))

\* variant: either access setting alone is rejected
AccessCheck_either(obj) ==
    IF TruthySeq(obj.control_plane_access_cidrs) \/ obj.private_api
    THEN <<AccessError>> ELSE <<>>

AccessCheck(obj) ==
    IF TruthySeq(obj.control_plane_access_cidrs) /\ obj.private_api
    THEN <<AccessError>> ELSE <<>>

\* variant: the validation stops at the first error it finds
post_init_errors_first_only(obj) ==
    LET all == ManagedLoop(obj.managed_nodegroups)
               \o UnmanagedLoop(obj.unmanaged_nodegroups)
               \o AccessCheck(obj)
    IN IF all = <<>> THEN <<>> ELSE <<Head(all)>>

\* the errors list at the end of __post_init__
post_init_errors(obj) ==
    ManagedLoop(obj.managed_nodegroups)
    \o UnmanagedLoop(obj.unmanaged_nodegroups)
    \o AccessCheck(obj)

\* EKS(...): the dataclass __init__ sets the fields and runs __post_init__
EKS(fields) ==
    LET errs == post_init_errors(fields)
    IN [self   |-> fields,
        errors |-> errs,
        exc    |-> IF errs # <<>> THEN ValueError(errs) ELSE NoExc]

----------------------------------------------------------------------------
(* The schema loaders.  Each yields [c, self, errors, exc, ret]: the dict  *)
(* as the call left it, the EKS instance that was validated (if the call   *)
(* got that far), its errors list, and the exception or the return value.  *)

Aborted(rest, e) == [c |-> rest, self |-> NoObj, errors |-> <<>>, exc |-> e, ret |-> NoObj]

\* variant: the top-level leftover keys are checked before the validation
BuildAndCheck_leftover_first(fields, rest) ==
    LET e == EKS(fields)
        f == from_loader("config.eks", e.self, rest)
    IN IF Raised(f.exc)
       THEN [c |-> rest, self |-> e.self, errors |-> e.errors, exc |-> f.exc, ret |-> NoObj]
       ELSE [c |-> rest, self |-> e.self, errors |-> e.errors, exc |-> e.exc,
             ret |-> IF Raised(e.exc) THEN NoObj ELSE f.ret]

\* the tail both loaders share: EKS(...) is evaluated, then from_loader
BuildAndCheck(fields, rest) ==
    LET e == EKS(fields)
        f == from_loader("config.eks", e.self, rest)
    IN IF Raised(e.exc)
       THEN [c |-> rest, self |-> e.self, errors |-> e.errors, exc |-> e.exc, ret |-> NoObj]
       ELSE [c |-> rest, self |-> e.self, errors |-> e.errors, exc |-> f.exc, ret |-> f.ret]

Top_0_0_0 ==
    << P("version"), P("private_api"), P("max_nodegroup_azs"),
       P("global_node_labels"), P("global_node_tags"), PD("managed_nodegroups", <<>>) >>

from_0_0_0(d) ==
    LET t  == PopKeys(d, Top_0_0_0)
        m  == LoadEach(t.vals.managed_nodegroups, TRUE, TRUE)
        u  == PopKeys(t.rest, << PD("nodegroups", <<>>) >>)
        un == LoadEach(u.vals.nodegroups, FALSE, TRUE)
    IN IF Raised(t.exc) THEN Aborted(t.rest, t.exc)
       ELSE IF Raised(m.exc) THEN Aborted(t.rest, m.exc)
       ELSE IF Raised(un.exc) THEN Aborted(u.rest, un.exc)
       ELSE BuildAndCheck(
                [version                    |-> t.vals.version,
                 control_plane_access_cidrs |-> <<>>,
                 private_api                |-> t.vals.private_api,
                 max_nodegroup_azs          |-> t.vals.max_nodegroup_azs,
                 global_node_labels         |-> t.vals.global_node_labels,
                 global_node_tags           |-> t.vals.global_node_tags,
                 managed_nodegroups         |-> m.objs,
                 unmanaged_nodegroups       |-> un.objs,
                 secrets_encryption_key_arn |-> None],
                u.rest)

Top_0_0_1 ==
    << P("version"), P("control_plane_access_cidrs"), P("private_api"),
       PD("secrets_encryption_key_arn", None), P("max_nodegroup_azs"),
       P("global_node_labels"), P("global_node_tags"), PD("managed_nodegroups", <<>>) >>

from_0_0_1(d) ==
    LET t  == PopKeys(d, Top_0_0_1)
        m  == LoadEach(t.vals.managed_nodegroups, TRUE, FALSE)
        u  == PopKeys(t.rest, << PD("unmanaged_nodegroups", <<>>) >>)
        un == LoadEach(u.vals.unmanaged_nodegroups, FALSE, FALSE)
    IN IF Raised(t.exc) THEN Aborted(t.rest, t.exc)
       ELSE IF Raised(m.exc) THEN Aborted(t.rest, m.exc)
       ELSE IF Raised(un.exc) THEN Aborted(u.rest, un.exc)
       ELSE BuildAndCheck(
                [version                    |-> t.vals.version,
                 control_plane_access_cidrs |-> t.vals.control_plane_access_cidrs,
                 private_api                |-> t.vals.private_api,
                 secrets_encryption_key_arn |-> t.vals.secrets_encryption_key_arn,
                 max_nodegroup_azs          |-> t.vals.max_nodegroup_azs,
                 global_node_labels         |-> t.vals.global_node_labels,
                 global_node_tags           |-> t.vals.global_node_tags,
                 managed_nodegroups         |-> m.objs,
                 unmanaged_nodegroups       |-> un.objs],
                u.rest)

----------------------------------------------------------------------------
(* Inputs.  The loaders are run on every mapping that is at most MaxEdits  *)
(* point edits away from a well-formed mapping of either schema: setting   *)
(* or deleting one key of the top level or of one nodegroup entry, or      *)
(* appending one more nodegroup entry.                                     *)

MaxEdits == 2

Rule == [name |-> "ssh", from_port |-> 22, to_port |-> 22, protocol |-> "TCP",
         ip_cidrs |-> <<"10.0.0.0/8">>]

SharedNg ==
    [ssm_agent |-> FALSE, disk_size |-> 100, key_name |-> "kp", min_size |-> 1,
     max_size |-> 2, instance_types |-> <<"m5.large">>, labels |-> EmptyMap,
     tags |-> [env |-> "dev"]]

ManagedNg == Merge(SharedNg, [spot |-> FALSE, desired_size |-> 1])

UnmanagedNg == Merge(SharedNg, [gpu |-> TRUE, imdsv2_required |-> TRUE, ingress_ports |-> <<Rule>>])

UnmanagedNg_0_0_0 == Merge(SharedNg, [gpu |-> TRUE])

Input_0_0_1 ==
    [version |-> "1.20", control_plane_access_cidrs |-> <<"0.0.0.0/0">>, private_api |-> FALSE,
     secrets_encryption_key_arn |-> "arn:kms", max_nodegroup_azs |-> 3,
     global_node_labels |-> [domino |-> "true"], global_node_tags |-> EmptyMap,
     managed_nodegroups |-> <<[name |-> "m1", ng |-> ManagedNg]>>,
     unmanaged_nodegroups |-> <<[name |-> "u1", ng |-> UnmanagedNg]>>]

Input_0_0_0 ==
    [version |-> "1.20", private_api |-> FALSE, max_nodegroup_azs |-> 3,
     global_node_labels |-> [domino |-> "true"], global_node_tags |-> EmptyMap,
     managed_nodegroups |-> <<[name |-> "m1", ng |-> ManagedNg]>>,
     nodegroups |-> <<[name |-> "u1", ng |-> UnmanagedNg_0_0_0]>>]

Put(k, v) == [op |-> "set", k |-> k, v |-> v]

Drop(k) == [op |-> "del", k |-> k, v |-> None]

NgEdits ==
    << Put("ssm_agent", TRUE), Put("labels", [team |-> "ds"]),
       Put("ami_id", "ami-123"), Put("ami_id", ""),
       Put("user_data", "#!/bin/sh"), Put("user_data", ""),
       Put("min_size", 0), Put("min_size", -1),
       Put("machine_image", [ami_id |-> "ami-456"]),
       Put("machine_image", [ami_id |-> "ami-456", user_data |-> "#cloud-config"]),
       Put("taints", [dedicated |-> "gpu"]),
       Put("imdsv2_required", TRUE),
       Put("bogus", "x"), Drop("disk_size") >>

TopEdits ==
    << Put("private_api", TRUE), Put("control_plane_access_cidrs", <<>>),
       Put("bogus", "x"), Drop("version"), Drop("secrets_encryption_key_arn") >>

NgKeys == {"managed_nodegroups", "unmanaged_nodegroups", "nodegroups"}

ApplyEdit(d, e) == IF e.op = "set" THEN SetItem(d, e.k, e.v) ELSE Without(d, {e.k})

EditEntry(cfg, key, i, e) ==
    SetItem(cfg, key, [cfg[key] EXCEPT ![i] = [name |-> @.name, ng |-> ApplyEdit(@.ng, e)]])

AddEntry(cfg, key) ==
    LET n == Len(cfg[key]) + 1
    IN SetItem(cfg, key, Append(cfg[key], [name |-> "n" \o ToString(n), ng |-> cfg[key][1].ng]))

Edited(cfg) ==
    {ApplyEdit(cfg, TopEdits[j]) : j \in 1..Len(TopEdits)}
    \cup UNION {{EditEntry(cfg, key, i, NgEdits[j]) : i \in 1..Len(cfg[key]), j \in 1..Len(NgEdits)}
                 : key \in NgKeys \cap DOMAIN cfg}
    \cup {AddEntry(cfg, key) : key \in {k \in NgKeys \cap DOMAIN cfg : Len(cfg[k]) = 1}}

RECURSIVE Inputs(_)
Inputs(n) ==
    IF n = 0 THEN {Input_0_0_0, Input_0_0_1}
    ELSE LET prev == Inputs(n - 1) IN prev \cup UNION {Edited(cfg) : cfg \in prev}

----------------------------------------------------------------------------
(* The state machine: one call of one loader on one input mapping. *)

Init ==
    /\ input \in Inputs(MaxEdits)
    /\ c = input
    /\ loader = "none"
    /\ pc = "start"
    /\ self = NoObj
    /\ errors = <<>>
    /\ exc = NoExc
    /\ ret = NoObj

Finish(name, r) ==
    /\ loader' = name
    /\ pc' = "done"
    /\ c' = r.c
    /\ self' = r.self
    /\ errors' = r.errors
    /\ exc' = r.exc
    /\ ret' = r.ret
    /\ UNCHANGED input

Call_from_0_0_0 ==
    /\ pc = "start"
    /\ Finish("from_0_0_0", from_0_0_0(c))

Call_from_0_0_1 ==
    /\ pc = "start"
    /\ Finish("from_0_0_1", from_0_0_1(c))

Next == Call_from_0_0_0 \/ Call_from_0_0_1

Spec == Init /\ [][Next]_vars

----------------------------------------------------------------------------
(* Vocabulary of the properties.  The rules are restated here from the     *)
(* fields of an object or the keys of an input, not through the operators  *)
(* that model the code.                                                    *)

Range(s) == {s[i] : i \in 1..Len(s)}

Get(d, k, dflt) == IF k \in DOMAIN d THEN d[k] ELSE dflt

IsSet(v) == v \notin {None, ""}

Returned == pc = "done" /\ ret # NoObj

Validated == pc = "done" /\ self # NoObj

\* the rules of the validation, on a nodegroup object
LacksUserData(ng) == IsSet(ng.ami_id) /\ ~IsSet(ng.user_data)

ManagedIncompatible(ng) == IsSet(ng.ami_id) /\ (ng.ssm_agent \/ ng.labels # EmptyMap)

UnmanagedIncompatible(ng) ==
    IsSet(ng.ami_id) /\ (ng.ssm_agent \/ ng.labels # EmptyMap \/ ng.taints # EmptyMap)

AccessConflict(obj) == obj.control_plane_access_cidrs # <<>> /\ obj.private_api

Violations(obj) ==
    {UserDataError(ManagedName(e.name)) : e \in {x \in Range(obj.managed_nodegroups) : LacksUserData(x.ng)}}
    \cup {IncompatibleError(ManagedName(e.name)) :
            e \in {x \in Range(obj.managed_nodegroups) : ManagedIncompatible(x.ng)}}
    \cup {MinSizeError(ManagedName(e.name)) : e \in {x \in Range(obj.managed_nodegroups) : x.ng.min_size = 0}}
    \cup {UserDataError(UnmanagedName(e.name)) :
            e \in {x \in Range(obj.unmanaged_nodegroups) : LacksUserData(x.ng)}}
    \cup {IncompatibleError(UnmanagedName(e.name)) :
            e \in {x \in Range(obj.unmanaged_nodegroups) : UnmanagedIncompatible(x.ng)}}
    \cup (IF AccessConflict(obj) THEN {AccessError} ELSE {})

Section(e) ==
    CASE e.subject[1] = "Managed nodegroup" -> 1
      [] e.subject[1] = "Unmanaged nodegroup" -> 2
      [] OTHER -> 3

----------------------------------------------------------------------------
\* C1: the validation reports every violated rule, once each and nothing
\* else, in one ValueError that carries the whole list, the managed
\* nodegroups' errors before the unmanaged nodegroups' before the
\* top-level one; no violated rule, no ValueError.
C1_AllErrorsRaisedTogether ==
    Validated =>
        /\ Range(errors) = Violations(self)
        /\ Len(errors) = Cardinality(Violations(self))
        /\ \A i, j \in 1..Len(errors) : i < j => Section(errors[i]) <= Section(errors[j])
        /\ Violations(self) # {} => exc = ValueError(errors)
        /\ Violations(self) = {} => exc.kind # "ValueError"

C1_Witness ==
    /\ Validated
    /\ exc.kind = "ValueError"
    /\ \E i, j \in 1..Len(exc.errors) : i < j /\ Section(exc.errors[i]) < Section(exc.errors[j])

----------------------------------------------------------------------------
\* C7: the access error is reported exactly when control_plane_access_cidrs
\* is non-empty and private_api is true, and then the validation fails;
\* one of the two alone never triggers it.
C7_AccessMutuallyExclusive ==
    Validated =>
        /\ (AccessError \in Range(errors)) <=>
                (self.control_plane_access_cidrs # <<>> /\ self.private_api)
        /\ (self.control_plane_access_cidrs # <<>> /\ self.private_api) =>
                (exc.kind = "ValueError" /\ AccessError \in Range(exc.errors))

C7_Witness ==
    /\ Validated
    /\ self.control_plane_access_cidrs # <<>>
    /\ self.private_api
    /\ exc.kind = "ValueError"

----------------------------------------------------------------------------
\* C8: for a managed and for an unmanaged nodegroup the user_data error is
\* reported exactly when ami_id is set and user_data is unset or empty: a
\* non-empty user_data clears it, and without ami_id it is never reported.
C8_UserDataWithCustomAmi ==
    Validated =>
        /\ \A e \in Range(self.managed_nodegroups) :
              /\ (UserDataError(ManagedName(e.name)) \in Range(errors)) <=>
                    (IsSet(e.ng.ami_id) /\ e.ng.user_data \in {None, ""})
              /\ (IsSet(e.ng.ami_id) /\ e.ng.user_data \in {None, ""}) => exc.kind = "ValueError"
        /\ \A e \in Range(self.unmanaged_nodegroups) :
              /\ (UserDataError(UnmanagedName(e.name)) \in Range(errors)) <=>
                    (IsSet(e.ng.ami_id) /\ e.ng.user_data \in {None, ""})
              /\ (IsSet(e.ng.ami_id) /\ e.ng.user_data \in {None, ""}) => exc.kind = "ValueError"

C8_Witness ==
    /\ Validated
    /\ \E e \in Range(self.unmanaged_nodegroups) :
          /\ IsSet(e.ng.ami_id)
          /\ e.ng.user_data \in {None, ""}
          /\ UserDataError(UnmanagedName(e.name)) \in Range(exc.errors)
    /\ \E e \in Range(self.managed_nodegroups) :
          /\ IsSet(e.ng.ami_id)
          /\ IsSet(e.ng.user_data)
          /\ UserDataError(ManagedName(e.name)) \notin Range(exc.errors)

----------------------------------------------------------------------------
\* C10: the incompatible-options error is reported for a managed nodegroup
\* exactly when ami_id is set and (ssm_agent or labels non-empty), for an
\* unmanaged one exactly when ami_id is set and (ssm_agent or labels
\* non-empty or taints non-empty); never without ami_id.
C10_IncompatibleOptions ==
    Validated =>
        /\ \A e \in Range(self.managed_nodegroups) :
              (IncompatibleError(ManagedName(e.name)) \in Range(errors)) <=>
                  (IsSet(e.ng.ami_id) /\ (e.ng.ssm_agent \/ DOMAIN e.ng.labels # {}))
        /\ \A e \in Range(self.unmanaged_nodegroups) :
              (IncompatibleError(UnmanagedName(e.name)) \in Range(errors)) <=>
                  (IsSet(e.ng.ami_id) /\ (e.ng.ssm_agent \/ DOMAIN e.ng.labels # {}
                                           \/ DOMAIN e.ng.taints # {}))

C10_Witness ==
    /\ Validated
    /\ \E e \in Range(self.unmanaged_nodegroups) :
          /\ IsSet(e.ng.ami_id)
          /\ ~e.ng.ssm_agent
          /\ DOMAIN e.ng.labels = {}
          /\ DOMAIN e.ng.taints # {}
          /\ IncompatibleError(UnmanagedName(e.name)) \in Range(exc.errors)

----------------------------------------------------------------------------
(* The schema of an input mapping, as the loader that ran reads it. *)

SharedKeys ==
    {"ssm_agent", "disk_size", "key_name", "min_size", "max_size", "ami_id",
     "user_data", "instance_types", "labels", "tags"}

OptionalKeys == {"key_name", "ami_id", "user_data", "taints"}

ManagedKeys == SharedKeys \cup {"spot", "desired_size"}

UnmanagedKeys == SharedKeys \cup {"gpu", "imdsv2_required", "taints", "ingress_ports"}

\* the keys the nodegroup loader finds in a nodegroup entry of the input
SeenKeys(ng, managed) ==
    IF loader = "from_0_0_0"
    THEN (DOMAIN ng \ {"machine_image"})
         \cup DOMAIN Get(ng, "machine_image", EmptyMap)
         \cup (IF managed THEN {} ELSE {"imdsv2_required", "ingress_ports"})
    ELSE DOMAIN ng

UnmanagedKey == IF loader = "from_0_0_0" THEN "nodegroups" ELSE "unmanaged_nodegroups"

ManagedEntries == Get(input, "managed_nodegroups", <<>>)

UnmanagedEntries == Get(input, UnmanagedKey, <<>>)

TopRequired ==
    {"version", "private_api", "max_nodegroup_azs", "global_node_labels", "global_node_tags"}
    \cup (IF loader = "from_0_0_0" THEN {} ELSE {"control_plane_access_cidrs"})

TopSchema ==
    TopRequired \cup {"managed_nodegroups", UnmanagedKey}
    \cup (IF loader = "from_0_0_0" THEN {} ELSE {"secrets_encryption_key_arn"})

TopMissing == TopRequired \ DOMAIN input

TopLeftover == DOMAIN input \ TopSchema

\* <<section, entry, key>> for every required key a nodegroup entry lacks
NgMissing ==
    {t \in {"managed"} \X (1..Len(ManagedEntries)) \X (ManagedKeys \ OptionalKeys) :
        t[3] \notin SeenKeys(ManagedEntries[t[2]].ng, TRUE)}
    \cup {t \in {"unmanaged"} \X (1..Len(UnmanagedEntries)) \X (UnmanagedKeys \ OptionalKeys) :
        t[3] \notin SeenKeys(UnmanagedEntries[t[2]].ng, FALSE)}

\* <<section, entry, key>> for every key of a nodegroup entry no loader step reads
NgLeftover ==
    UNION {{<<"managed", i, k>> : k \in SeenKeys(ManagedEntries[i].ng, TRUE) \ ManagedKeys}
            : i \in 1..Len(ManagedEntries)}
    \cup UNION {{<<"unmanaged", i, k>> : k \in SeenKeys(UnmanagedEntries[i].ng, FALSE) \ UnmanagedKeys}
            : i \in 1..Len(UnmanagedEntries)}

\* the cross-field rules, on the raw values of the input
RawViolation ==
    \/ \E i \in 1..Len(ManagedEntries) :
          LET ng == ManagedEntries[i].ng
          IN \/ Get(ng, "min_size", 1) = 0
             \/ /\ IsSet(Get(ng, "ami_id", None))
                /\ \/ ~IsSet(Get(ng, "user_data", None))
                   \/ Get(ng, "ssm_agent", FALSE)
                   \/ Get(ng, "labels", EmptyMap) # EmptyMap
    \/ \E i \in 1..Len(UnmanagedEntries) :
          LET ng == UnmanagedEntries[i].ng
          IN /\ IsSet(Get(ng, "ami_id", None))
             /\ \/ ~IsSet(Get(ng, "user_data", None))
                \/ Get(ng, "ssm_agent", FALSE)
                \/ Get(ng, "labels", EmptyMap) # EmptyMap
                \/ Get(ng, "taints", EmptyMap) # EmptyMap
    \/ /\ Get(input, "control_plane_access_cidrs", <<>>) # <<>>
       /\ Get(input, "private_api", FALSE)

----------------------------------------------------------------------------
\* C2: an input that lacks no required key and has one unrecognized key in
\* one nodegroup entry (managed or unmanaged, either loader) fails with the
\* nodegroup leftover-key error naming exactly that key, before any EKS
\* object is built; nothing is returned.
C2_NodegroupLeftoverKeyFails ==
    (pc = "done" /\ TopMissing = {} /\ NgMissing = {} /\ Cardinality(NgLeftover) = 1) =>
        LET t == CHOOSE x \in NgLeftover : TRUE
        IN /\ exc.kind = "ConfigError"
           /\ exc.keys = {t[3]}
           /\ exc.what = t[1] \o " nodegroup attribute"
           /\ self = NoObj
           /\ ret = NoObj

C2_Witness ==
    /\ pc = "done"
    /\ TopMissing = {}
    /\ NgMissing = {}
    /\ NgLeftover = {<<"unmanaged", 1, "bogus">>}
    /\ RawViolation
    /\ exc.kind = "ConfigError"
    /\ exc.keys = {"bogus"}

----------------------------------------------------------------------------
\* C9 as stated: an input with a schema error (a required key missing, or
\* a leftover key in a nodegroup or at the top level) never fails with the
\* aggregate validation error, whatever cross-field rule it also violates.
C9_SchemaErrorAlwaysFirst ==
    (pc = "done" /\ (TopMissing # {} \/ NgMissing # {} \/ NgLeftover # {} \/ TopLeftover # {})) =>
        exc.kind \in {"KeyError", "ConfigError"}

\* C9 as amended: a missing required key or a nodegroup leftover key
\* fails with the schema error before any validation runs; a top-level
\* leftover key is checked after the validation, so it is reported only
\* when no cross-field rule is violated, and the ValueError otherwise.
C9_SchemaErrorOrder ==
    pc = "done" =>
        /\ (TopMissing # {} \/ NgMissing # {} \/ NgLeftover # {}) =>
              (exc.kind \in {"KeyError", "ConfigError"} /\ self = NoObj /\ errors = <<>>)
        /\ (TopMissing = {} /\ NgMissing = {} /\ NgLeftover = {} /\ TopLeftover # {}) =>
              /\ self # NoObj
              /\ ret = NoObj
              /\ IF errors # <<>>
                 THEN exc = ValueError(errors)
                 ELSE exc.kind = "ConfigError" /\ exc.keys = TopLeftover

C9_Witness ==
    /\ pc = "done"
    /\ loader = "from_0_0_1"
    /\ NgLeftover # {}
    /\ TopMissing = {}
    /\ NgMissing = {}
    /\ RawViolation
    /\ exc.kind = "ConfigError"

----------------------------------------------------------------------------
\* the nested AMI of a 0.0.0 nodegroup entry, None when it has none
NestedAmi(ng) == Get(Get(ng, "machine_image", EmptyMap), "ami_id", None)

HasNestedAmi(ng) == "ami_id" \in DOMAIN Get(ng, "machine_image", EmptyMap)

ImdsV2Forced == \A i \in 1..Len(ret.unmanaged_nodegroups) : ~ret.unmanaged_nodegroups[i].ng.imdsv2_required

\* C3 as stated: in what from_0_0_0 returns, every nodegroup whose entry
\* has machine_image.ami_id has that value as its ami_id, and every
\* unmanaged nodegroup has imdsv2_required = false.
C3_NestedAmiAlwaysWins ==
    (Returned /\ loader = "from_0_0_0") =>
        /\ \A i \in 1..Len(ManagedEntries) :
              HasNestedAmi(ManagedEntries[i].ng) =>
                  ret.managed_nodegroups[i].ng.ami_id = NestedAmi(ManagedEntries[i].ng)
        /\ \A i \in 1..Len(UnmanagedEntries) :
              HasNestedAmi(UnmanagedEntries[i].ng) =>
                  ret.unmanaged_nodegroups[i].ng.ami_id = NestedAmi(UnmanagedEntries[i].ng)
        /\ ImdsV2Forced

\* C3 as amended: the nested machine_image.ami_id becomes the nodegroup's
\* ami_id when the entry has no ami_id key of its own; an entry's own
\* ami_id key takes precedence over the nested one; every unmanaged
\* nodegroup has imdsv2_required = false whatever the input carries.
C3_FlattenedAmi ==
    (Returned /\ loader = "from_0_0_0") =>
        /\ \A i \in 1..Len(ManagedEntries) :
              LET ng == ManagedEntries[i].ng
              IN HasNestedAmi(ng) =>
                    ret.managed_nodegroups[i].ng.ami_id =
                        (IF "ami_id" \in DOMAIN ng THEN ng.ami_id ELSE NestedAmi(ng))
        /\ \A i \in 1..Len(UnmanagedEntries) :
              LET ng == UnmanagedEntries[i].ng
              IN HasNestedAmi(ng) =>
                    ret.unmanaged_nodegroups[i].ng.ami_id =
                        (IF "ami_id" \in DOMAIN ng THEN ng.ami_id ELSE NestedAmi(ng))
        /\ ImdsV2Forced

C3_Witness ==
    /\ Returned
    /\ loader = "from_0_0_0"
    /\ \E i \in 1..Len(ManagedEntries) :
          /\ HasNestedAmi(ManagedEntries[i].ng)
          /\ "ami_id" \notin DOMAIN ManagedEntries[i].ng
          /\ ret.managed_nodegroups[i].ng.ami_id = "ami-456"
    /\ \E i \in 1..Len(UnmanagedEntries) :
          /\ Get(UnmanagedEntries[i].ng, "imdsv2_required", FALSE)
          /\ ~ret.unmanaged_nodegroups[i].ng.imdsv2_required

----------------------------------------------------------------------------
\* the value a field of a nodegroup object must have for the raw entry ng
Expected(ng, k) ==
    IF k \in DOMAIN ng THEN ng[k] ELSE IF k = "taints" THEN EmptyMap ELSE None

ValidCurrentInput ==
    /\ TopMissing = {}
    /\ TopLeftover = {}
    /\ NgMissing = {}
    /\ NgLeftover = {}
    /\ ~RawViolation

\* C4: from_0_0_1 on a valid current-schema input returns an EKS object
\* whose top-level fields and nodegroup fields equal the input's values,
\* an absent optional key giving None and absent taints the empty mapping.
C4_RoundTrip ==
    (pc = "done" /\ loader = "from_0_0_1" /\ ValidCurrentInput) =>
        /\ exc = NoExc
        /\ ret # NoObj
        /\ \A k \in TopRequired : ret[k] = input[k]
        /\ ret.secrets_encryption_key_arn = Get(input, "secrets_encryption_key_arn", None)
        /\ Len(ret.managed_nodegroups) = Len(ManagedEntries)
        /\ Len(ret.unmanaged_nodegroups) = Len(UnmanagedEntries)
        /\ \A i \in 1..Len(ManagedEntries) :
              /\ ret.managed_nodegroups[i].name = ManagedEntries[i].name
              /\ DOMAIN ret.managed_nodegroups[i].ng = ManagedKeys
              /\ \A k \in ManagedKeys :
                    ret.managed_nodegroups[i].ng[k] = Expected(ManagedEntries[i].ng, k)
        /\ \A i \in 1..Len(UnmanagedEntries) :
              /\ ret.unmanaged_nodegroups[i].name = UnmanagedEntries[i].name
              /\ DOMAIN ret.unmanaged_nodegroups[i].ng = UnmanagedKeys
              /\ \A k \in UnmanagedKeys :
                    ret.unmanaged_nodegroups[i].ng[k] = Expected(UnmanagedEntries[i].ng, k)

C4_Witness ==
    /\ pc = "done"
    /\ loader = "from_0_0_1"
    /\ ValidCurrentInput
    /\ "secrets_encryption_key_arn" \notin DOMAIN input
    /\ \E i \in 1..Len(ManagedEntries) : ManagedEntries[i].ng.ssm_agent
    /\ ret # NoObj
    /\ \E i \in 1..Len(ret.unmanaged_nodegroups) :
          /\ ret.unmanaged_nodegroups[i].ng.ami_id = None
          /\ ret.unmanaged_nodegroups[i].ng.taints = EmptyMap
          /\ ret.unmanaged_nodegroups[i].ng.ingress_ports # <<>>

----------------------------------------------------------------------------
\* the shared fields of a managed nodegroup object, as an unmanaged one
AsUnmanaged(e) ==
    [name |-> e.name,
     ng   |-> Merge([k \in SharedKeys |-> e.ng[k]],
                    [gpu |-> FALSE, imdsv2_required |-> FALSE, taints |-> EmptyMap,
                     ingress_ports |-> <<>>])]

\* C5: a managed nodegroup with min_size = 0 makes the validation fail
\* with the min_size error; no unmanaged nodegroup ever gets a min_size
\* error, and the same shared fields validated as an unmanaged nodegroup
\* give no min_size error and, when min_size was the only rule the managed
\* nodegroup violated, no error at all.
C5_MinSizeZeroOnlyManaged ==
    Validated =>
        /\ \A e \in Range(self.managed_nodegroups) :
              e.ng.min_size = 0 =>
                  /\ exc.kind = "ValueError"
                  /\ MinSizeError(ManagedName(e.name)) \in Range(exc.errors)
                  /\ LET alone == EKS([self EXCEPT !.managed_nodegroups = <<>>,
                                                   !.unmanaged_nodegroups = <<AsUnmanaged(e)>>,
                                                   !.private_api = FALSE])
                     IN /\ \A x \in Range(alone.errors) : x.rule # "min_size"
                        /\ (~LacksUserData(e.ng) /\ ~ManagedIncompatible(e.ng)) => alone.exc = NoExc
        /\ \A x \in Range(errors) : x.rule = "min_size" => x.subject[1] = "Managed nodegroup"
        /\ (Violations(self) = {} /\ \E e \in Range(self.unmanaged_nodegroups) : e.ng.min_size = 0) =>
              exc.kind # "ValueError"

C5_Witness ==
    /\ Validated
    /\ \E e \in Range(self.managed_nodegroups) :
          e.ng.min_size = 0 /\ MinSizeError(ManagedName(e.name)) \in Range(exc.errors)
    /\ \E e \in Range(self.unmanaged_nodegroups) : e.ng.min_size = 0
    /\ Len(exc.errors) = 1

----------------------------------------------------------------------------
\* an EKS object whose construction (fields and __post_init__) succeeded
Constructed == Validated /\ exc.kind # "ValueError"

\* C6 as stated: every managed nodegroup of a constructed EKS object has
\* min_size > 0.
C6_ManagedMinSizePositive ==
    Constructed => \A e \in Range(self.managed_nodegroups) : e.ng.min_size > 0

\* C6 as amended: every managed nodegroup of a constructed EKS object has
\* min_size different from 0; a negative min_size is accepted.
C6_ManagedMinSizeNonZero ==
    Constructed => \A e \in Range(self.managed_nodegroups) : e.ng.min_size # 0

C6_Witness ==
    /\ Constructed
    /\ ret # NoObj
    /\ \E e \in Range(ret.managed_nodegroups) : e.ng.min_size < 0
    /\ \E i \in 1..Len(ManagedEntries) : ManagedEntries[i].ng.min_size = 1
====
